---- MODULE Spec2Model ----
(***************************************************************************)
(* The jsc command-line shell (src/source/jsc.cpp): argument parsing,      *)
(* the batch driver runWithScripts, the interactive loop runInteractive,   *)
(* and the reduction of a run to a process exit status in jscmain.         *)
(*                                                                         *)
(* Strings are sequences of one-character strings, so that strcmp, the     *)
(* pointer &arg[2] and the null terminator are modelled by what they do.   *)
(***************************************************************************)
EXTENDS Integers, Sequences, FiniteSets, TLC

(***************************************************************************)
(* Bounds of the model.                                                    *)
(***************************************************************************)
MaxArgs == 3          \* longest argument vector of Spec
MaxInput == 1         \* characters standard input can deliver in Spec
MaxReplArgs == 2      \* longest argument vector of SpecRepl
MaxReplInput == 3     \* characters standard input can deliver in SpecRepl
MaxParseArgs == 2     \* longest argument vector of SpecParse
MaxNativeScripts == 2 \* most -e scripts on a command line of SpecNative
MaxLiveArgs == 2      \* longest argument vector of SpecTerminates
MaxLiveInput == 1     \* characters standard input holds in SpecTerminates
MaxFillPrefix == 2    \* longest freely chosen start of a file of SpecFill

(***************************************************************************)
(* Program constants.                                                      *)
(***************************************************************************)
EXIT_SUCCESS == 0
EXIT_FAILURE == 1
InitialBufferCapacity == 1024
FailureResult == 3

NUL == "NUL"          \* the character '\0'
EOF == "EOF"          \* what getchar returns at end-of-input
NL == "\n"
CR == "\r"
Uninitialized == "?"  \* a char of a Vector<char> that nothing has written

(***************************************************************************)
(* The tokens the parser compares against with strcmp.                     *)
(***************************************************************************)
StrF == <<"-", "f">>
StrE == <<"-", "e">>
StrI == <<"-", "i">>
StrD == <<"-", "d">>
StrP == <<"-", "p">>
StrS == <<"-", "s">>
StrX == <<"-", "x">>
StrDashDash == <<"-", "-">>
StrH == <<"-", "h">>
StrHelp == <<"-", "-", "h", "e", "l", "p">>
StrOptions == <<"-", "-", "o", "p", "t", "i", "o", "n", "s">>
StrDumpOptions == <<"-", "-", "d", "u", "m", "p", "O", "p", "t", "i", "o", "n", "s">>
CommandLineName == <<"[", "C", "L", "]">>     \* "[Command Line]"
interactivePrompt == "> "

(***************************************************************************)
(* The environment of a run: the engine's option table, the file system    *)
(* and what a source text does when the engine evaluates it.               *)
(***************************************************************************)
StrUseJIT == <<"-", "-", "u", "s", "e", "J", "I", "T", "=", "0">>
StrUnknown == <<"-", "-", "z", "z">>
FileA == <<"a", ".", "j", "s">>
FileT == <<"t", ".", "j", "s">>
FileQ == <<"q", ".", "j", "s">>
FileS == <<"s", ".", "j", "s">>
FileM == <<"m", ".", "j", "s">>      \* a name no file has
FileN == <<"n", ".", "j", "s">>      \* a file whose script loads q.js
FileR == <<"r", ".", "j", "s">>      \* a file whose script loads m.js
StrBareOption == <<"x", "x", "u", "s", "e", "J", "I", "T", "=", "0">>
StrShort == <<"b">>                  \* a name shorter than two characters

\* JSC::Options::setOption(name=value): TRUE iff the engine knows the option
setOption(s) == s = <<"u", "s", "e", "J", "I", "T", "=", "0">>

\* fopen(fileName, "r"): the files that exist, and their bytes
FileExists(name) == name \in {FileA, FileT, FileQ, FileS, FileN, FileR}
FileBytes(name) ==
    CASE name = FileA -> <<"a">>
      [] name = FileT -> <<"t">>
      [] name = FileQ -> <<"q">>
      [] name = FileS -> <<"#", "!", "t">>
      [] name = FileN -> <<"L", "q">>
      [] name = FileR -> <<"L", "m">>
      [] OTHER -> <<>>

\* The engine evaluating a source text: "ok", "throw" or "quit" (the text
\* calls the native quit).  A text that is empty or a // comment evaluates
\* to undefined; a text starting with # is a syntax error.
Effect(text) ==
    IF text = <<>> THEN "ok"
    ELSE IF Len(text) >= 2 /\ text[1] = "/" /\ text[2] = "/" THEN "ok"
    ELSE IF text[1] \in {"t", "#"} THEN "throw"
    ELSE IF text[1] = "q" THEN "quit"
    ELSE "ok"

(***************************************************************************)
(* Helpers on strings and sequences.                                       *)
(***************************************************************************)
SeqsUpTo(S, n) == UNION {[1..k -> S] : k \in 0..n}

\* &arg[2]: the string that starts two characters into arg
Tail2(arg) == SubSeq(arg, 3, Len(arg))

Min(a, b) == IF a < b THEN a ELSE b

\* the C string a char* points to: the characters before the first NUL
RECURSIVE CString(_)
CString(buf) ==
    IF buf = <<>> \/ Head(buf) = NUL THEN <<>>
    ELSE <<Head(buf)>> \o CString(Tail(buf))

\* jscSource(utf8, filename): the source text handed to the engine
jscSource(utf8) == CString(utf8)

\* Script(isFile, argument)
Script(isFile, argument) == [isFile |-> isFile, argument |-> argument]

(***************************************************************************)
(* fillBufferWithContentsOfFile: the read loop with a doubling buffer,     *)
(* then the null terminator and the #! rewrite.  The result is the bytes   *)
(* of the buffer up to and including the terminator.                       *)
(***************************************************************************)
\* one fread(buffer + bufferSize, 1, bufferCapacity - bufferSize, f)
RECURSIVE ReadLoop(_, _, _, _)
ReadLoop(bytes, pos, bufferSize, bufferCapacity) ==
    LET n == Min(bufferCapacity - bufferSize, Len(bytes) - pos)
        atEnd == n < bufferCapacity - bufferSize      \* feof(f) after the read
        size == bufferSize + n
        cap == IF size = bufferCapacity THEN bufferCapacity * 2 ELSE bufferCapacity
    IN  IF atEnd THEN [bufferSize |-> size, bufferCapacity |-> cap]
        ELSE ReadLoop(bytes, pos + n, size, cap)

\* the buffer up to its terminator, for the bytes the stream delivers
BufferOf(bytes) ==
    LET r == ReadLoop(bytes, 0, 0, InitialBufferCapacity)
        buf == SubSeq(bytes, 1, r.bufferSize) \o <<NUL>>
    IN  IF Len(buf) >= 2 /\ buf[1] = "#" /\ buf[2] = "!"
        THEN <<"/", "/">> \o SubSeq(buf, 3, Len(buf))
        ELSE buf

fillBufferWithContentsOfFile(fileName) ==
    IF ~FileExists(fileName) THEN [ok |-> FALSE, buffer |-> <<>>]
    ELSE [ok |-> TRUE, buffer |-> BufferOf(FileBytes(fileName))]

\* array->putDirectIndex(exec, index, value)
putDirectIndex(array, index, value) ==
    [k \in DOMAIN array \cup {index} |-> IF k = index THEN value ELSE array[k]]

\* GlobalObject::finishCreation: an empty array, then one putDirectIndex
\* per element of the vector, at the element's zero-based index
RECURSIVE FillArguments(_, _, _)
FillArguments(array, arguments, index) ==
    IF index >= Len(arguments) THEN array
    ELSE FillArguments(putDirectIndex(array, index, arguments[index + 1]),
                       arguments, index + 1)

finishCreation(arguments) == FillArguments(<<>>, arguments, 0)

(***************************************************************************)
(* The natives run, load and checkSyntax.  A script text of two or three   *)
(* characters that starts with R, L or C is a call of run, load or         *)
(* checkSyntax on the file named by its second character; a third          *)
(* character c puts the call inside try { } catch (e) { }.                 *)
(***************************************************************************)
IsNativeCall(text) ==
    /\ Len(text) \in {2, 3}
    /\ text[1] \in {"R", "L", "C"}
    /\ Len(text) = 3 => text[3] = "c"

NativeName(text) ==
    CASE text[1] = "R" -> "run" [] text[1] = "L" -> "load" [] OTHER -> "checkSyntax"

\* exec->argument(0).toString(exec)->value(exec)
NativeArgument(text) == <<text[2], ".", "j", "s">>

InTryCatch(text) == Len(text) = 3

NativeEvent(native, file, what, scope, depth) ==
    [native |-> native, file |-> file, what |-> what, scope |-> scope, depth |-> depth]

\* checkSyntax(exec, source, &syntaxException): FALSE on a syntax error
checkSyntax(text) == ~(text # <<>> /\ text[1] = "#")

\* the names a source text binds in the global scope it is evaluated in: a
\* text that starts with a is the assignment a = 1
Binds(text) == IF text # <<>> /\ text[1] = "a" THEN {"a"} ELSE {}

\* variant: run evaluates in the global object of its caller
runInCallerScope(scope) == scope

\* functionRun: GlobalObject::create(..), a global object of its own
runGlobalObject(scope) == "fresh"

\* what a run call leaves behind: the global object it created, with its
\* arguments array and the names the file bound in it, and what the call
\* handed back (the elapsed milliseconds, or undefined with the file's
\* exception thrown again; nothing when the file quit the process)
RunCall(file, arguments, nested) ==
    [file |-> file, arguments |-> arguments, bindings |-> nested.bound,
     threw |-> nested.effect = "throw",
     returned |-> CASE nested.effect = "ok" -> <<"elapsedMS">>
                    [] nested.effect = "throw" -> <<"undefined">>
                    [] OTHER -> <<>>]

\* variant: a file that cannot be opened ends the process
OpenFailureQuits == "quit"

\* throwError(exec, createError(exec, "Could not open file."))
OpenFailure == "throw"

\* a thrown error at the end of a script: caught by the script's own
\* try/catch, or left to the caller
Outcome(effect, caught) == IF effect = "throw" /\ caught THEN "ok" ELSE effect

\* The engine evaluating a source text in a global scope, the natives it
\* calls included: what the evaluation does ("ok", "throw", "quit") and the
\* native events it causes, in order.  run evaluates the file in a new
\* global object, load in the caller's, checkSyntax only parses it; an
\* exception of the nested evaluation is thrown again into the caller;
\* quit inside it ends the process, so nothing is left of the call.  bound
\* are the names the evaluation binds in the scope it was given, calls the
\* run calls it made.
\* fprintf(stderr, "Could not open file: %s\n", ..), once per failed open
OpenDiagnostics(trace) ==
    [k \in 1..Cardinality({j \in 1..Len(trace) : trace[j].what = "openFailed"})
        |-> "Could not open file"]

RECURSIVE Evaluate(_, _, _)
Evaluate(text, scope, depth) ==
    IF ~IsNativeCall(text)
    THEN [effect |-> Effect(text), trace |-> <<>>, bound |-> Binds(text), calls |-> <<>>]
    ELSE LET native == NativeName(text)
             file == NativeArgument(text)
             r == fillBufferWithContentsOfFile(file)
             source == jscSource(r.buffer)
             inner == IF native = "run" THEN runGlobalObject(scope) ELSE scope
             enter == NativeEvent(native, file, "enter", inner, depth + 1)
             leave == NativeEvent(native, file, "leave", inner, depth + 1)
         IN  IF ~r.ok
             THEN [effect |-> Outcome(OpenFailure, InTryCatch(text)),
                   trace |-> <<NativeEvent(native, file, "openFailed", scope, depth + 1)>>,
                   bound |-> {}, calls |-> <<>>]
             ELSE IF native = "checkSyntax"
             THEN [effect |-> Outcome(IF checkSyntax(source) THEN "ok" ELSE "throw",
                                      InTryCatch(text)),
                   trace |-> <<NativeEvent(native, file, "parsed", scope, depth + 1)>>,
                   bound |-> {}, calls |-> <<>>]
             ELSE LET nested == Evaluate(source, inner, depth + 1)
                      bound == IF inner = scope THEN nested.bound ELSE {}
                      calls == IF native = "run"
                               THEN <<RunCall(file, finishCreation(<<>>), nested)>>
                                    \o nested.calls
                               ELSE nested.calls
                  IN  IF nested.effect = "quit"
                      THEN [effect |-> "quit", trace |-> <<enter>> \o nested.trace,
                            bound |-> bound, calls |-> calls]
                      ELSE [effect |-> Outcome(nested.effect, InTryCatch(text)),
                            trace |-> <<enter>> \o nested.trace \o <<leave>>,
                            bound |-> bound, calls |-> calls]

(***************************************************************************)
(* State.                                                                  *)
(***************************************************************************)
VARIABLES
    argv,               \* argv[1..argc-1] of the process
    haveReadline,       \* the build: HAVE(READLINE) && !RUNNING_FROM_XCODE
    pc,                 \* where the process is
    exitStatus,         \* <<status>> once the process has ended, <<>> before
    exitPath,           \* how the process ended
    i,                  \* parseArguments: index of the next token
    needToDumpOptions, needToExit,
    m_interactive, m_dump, m_exitCode, m_profile, m_profilerOutput,
    m_scripts, m_arguments,
    lockHeld,           \* jscmain's JSLockHolder
    scriptIndex,        \* runWithScripts: the loop index (1-based)
    success,            \* runWithScripts' flag, then jscmain's
    script,             \* the char* the next evaluation reads
    fileName,
    evaluationException,\* the local JSValue of the current evaluation
    exception,          \* the pending exception of the evaluation context
    sampling,           \* open startSampling brackets
    evalLog,            \* the evaluations performed so far
    loadLog,            \* the files the batch driver tried to open
    stdinLeft,          \* characters standard input can still deliver
    stdinEOF,           \* standard input has reported end-of-input
    line,               \* runInteractive: the line being read
    lineNo,             \* runInteractive: reads completed so far
    out,                \* standard output
    err,                \* standard error
    globalDataCreated,  \* jscmain has created the JSGlobalData
    globalArguments,    \* the arguments array of the top-level global object
    globalBindings,     \* the names bound in the top-level global object
    runLog,             \* the run calls made so far
    nativeLog,          \* what run, load and checkSyntax did, in call order
    samplingLog,        \* the startSampling and stopSampling calls, in order
    textMode,           \* the build: fopen(.., "r") streams translate CR LF
    fillPc,             \* where a fillBufferWithContentsOfFile call is
    diskFile,           \* <<>> if fopen finds no file, else <<its bytes>>
    fPos,               \* how much of the stream f has been read
    fEOF,               \* feof(f)
    fError,             \* ferror(f)
    bufferSize,
    bufferCapacity,
    buffer              \* the Vector<char> of the caller

parserVars == <<i, needToDumpOptions, needToExit, m_interactive, m_dump,
                m_exitCode, m_profile, m_profilerOutput, m_scripts, m_arguments>>
batchVars == <<scriptIndex, success, script, fileName, evaluationException,
               exception, sampling, evalLog, loadLog>>
replVars == <<stdinLeft, stdinEOF, line, lineNo>>
procVars == <<pc, exitStatus, exitPath, lockHeld>>
hostVars == <<globalDataCreated, globalArguments, globalBindings, runLog>>
fillVars == <<textMode, fillPc, diskFile, fPos, fEOF, fError, bufferSize, bufferCapacity,
              buffer>>
mainVars == <<argv, haveReadline, procVars, parserVars, batchVars, replVars, out, err,
              hostVars, nativeLog, samplingLog>>
vars == <<mainVars, fillVars>>

argc == Len(argv)

\* the tokens argument vectors are drawn from
ArgTokens ==
    {StrF, StrE, StrI, StrD, StrP, StrS, StrX, StrDashDash, StrH, StrHelp,
     StrOptions, StrDumpOptions, StrUseJIT, StrUnknown, FileA, FileT, FileQ, FileM}

\* CommandLine::CommandLine and the locals of parseArguments
InitCommandLine ==
    /\ pc = "parseArguments"
    /\ exitStatus = <<>>
    /\ exitPath = "none"
    /\ i = 1
    /\ needToDumpOptions = FALSE
    /\ needToExit = FALSE
    /\ m_interactive = FALSE
    /\ m_dump = FALSE
    /\ m_exitCode = FALSE
    /\ m_profile = FALSE
    /\ m_profilerOutput = <<>>
    /\ m_scripts = <<>>
    /\ m_arguments = <<>>
    /\ lockHeld = FALSE
    /\ scriptIndex = 1
    /\ success = TRUE
    /\ script = <<>>
    /\ fileName = <<>>
    /\ evaluationException = FALSE
    /\ exception = FALSE
    /\ sampling = 0
    /\ evalLog = <<>>
    /\ loadLog = <<>>
    /\ stdinEOF = FALSE
    /\ line = <<>>
    /\ lineNo = 0
    /\ out = <<>>
    /\ err = <<>>
    /\ globalDataCreated = FALSE
    /\ globalArguments = <<>>
    /\ globalBindings = {}
    /\ runLog = <<>>
    /\ nativeLog = <<>>
    /\ samplingLog = <<>>

\* no fillBufferWithContentsOfFile call is followed step by step
FillIdle ==
    /\ textMode = FALSE
    /\ fillPc = "idle"
    /\ diskFile = <<>>
    /\ fPos = 0
    /\ fEOF = FALSE
    /\ fError = FALSE
    /\ bufferSize = 0
    /\ bufferCapacity = 0
    /\ buffer = <<>>

\* the process in either build
InitProcess ==
    /\ haveReadline \in BOOLEAN
    /\ InitCommandLine

Init ==
    /\ FillIdle
    /\ argv \in SeqsUpTo(ArgTokens, MaxArgs)
    /\ stdinLeft = MaxInput
    /\ InitProcess

(***************************************************************************)
(* exit(code): the process ends at once; no destructor of jscmain runs.    *)
(***************************************************************************)
Exit(code, path) ==
    /\ pc' = "exited"
    /\ exitStatus' = <<code>>
    /\ exitPath' = path
    /\ UNCHANGED lockHeld

\* variant: usage always ends with success
UsageStatusSuccess(help) == EXIT_SUCCESS

\* exit(help ? EXIT_SUCCESS : EXIT_FAILURE)
UsageStatus(help) == IF help THEN EXIT_SUCCESS ELSE EXIT_FAILURE

\* printUsageStatement(help)
printUsageStatement(help) ==
    /\ err' = Append(err, "Usage")
    /\ Exit(UsageStatus(help), IF help THEN "help" ELSE "usage")

(***************************************************************************)
(* CommandLine::parseArguments, one action per branch of the token loop.   *)
(***************************************************************************)
InParser == pc = "parseArguments" /\ i <= argc

\* variant: the loop index stays on the token
NextTokenStays(index) == index

\* the ++i of for (; i < argc; ++i)
NextToken(index) == index + 1

\* variant: the argument is looked at again as a token of its own
AfterArgumentReparsed(index) == index + 1

\* ++i for the argument, then the ++i of the for loop
AfterArgument(index) == index + 2

\* -f <path> and -e <code>
ParseScriptFlag ==
    /\ InParser
    /\ argv[i] \in {StrF, StrE}
    /\ IF i + 1 > argc
       THEN /\ printUsageStatement(FALSE)
            /\ i' = i + 1
            /\ UNCHANGED <<m_scripts, out>>
       ELSE /\ m_scripts' = Append(m_scripts, Script(argv[i] = StrF, argv[i + 1]))
            /\ i' = AfterArgument(i)
            /\ UNCHANGED <<procVars, out, err>>
    /\ UNCHANGED <<argv, haveReadline, fillVars, hostVars, nativeLog, samplingLog, needToDumpOptions, needToExit, m_interactive,
                   m_dump, m_exitCode, m_profile, m_profilerOutput, m_arguments,
                   batchVars, replVars>>

\* -i, -d, -s, -x
ParseSwitch ==
    /\ InParser
    /\ argv[i] \in {StrI, StrD, StrS, StrX}
    /\ m_interactive' = (m_interactive \/ argv[i] = StrI)
    /\ m_dump' = (m_dump \/ argv[i] = StrD)
    /\ m_exitCode' = (m_exitCode \/ argv[i] = StrX)
    /\ i' = NextToken(i)
    /\ UNCHANGED <<argv, haveReadline, fillVars, hostVars, nativeLog, samplingLog, procVars, needToDumpOptions, needToExit,
                   m_profile, m_profilerOutput, m_scripts, m_arguments,
                   batchVars, replVars, out, err>>

\* -p <file>
ParseProfile ==
    /\ InParser
    /\ argv[i] = StrP
    /\ IF i + 1 > argc
       THEN /\ printUsageStatement(FALSE)
            /\ i' = i + 1
            /\ UNCHANGED <<m_profile, m_profilerOutput>>
       ELSE /\ m_profile' = TRUE
            /\ m_profilerOutput' = argv[i + 1]
            /\ i' = AfterArgument(i)
            /\ UNCHANGED <<procVars, err>>
    /\ UNCHANGED <<argv, haveReadline, fillVars, hostVars, nativeLog, samplingLog, needToDumpOptions, needToExit, m_interactive,
                   m_dump, m_exitCode, m_scripts, m_arguments,
                   batchVars, replVars, out>>

\* variant: the "--" token is not skipped
AfterDashDashStays(index) == index

\* ++i; break;
AfterDashDash(index) == index + 1

\* -- : stop flag parsing
ParseDashDash ==
    /\ InParser
    /\ argv[i] = StrDashDash
    /\ i' = AfterDashDash(i)
    /\ pc' = "parsed"
    /\ UNCHANGED <<argv, haveReadline, fillVars, hostVars, nativeLog, samplingLog, exitStatus, exitPath, lockHeld,
                   needToDumpOptions, needToExit, m_interactive, m_dump, m_exitCode,
                   m_profile, m_profilerOutput, m_scripts, m_arguments,
                   batchVars, replVars, out, err>>

\* -h, --help
ParseHelp ==
    /\ InParser
    /\ argv[i] \in {StrH, StrHelp}
    /\ printUsageStatement(TRUE)
    /\ UNCHANGED <<argv, haveReadline, fillVars, hostVars, nativeLog, samplingLog, parserVars, batchVars, replVars, out>>

\* variant: --dumpOptions asks for the exit too
NeedToExitAfterAnyDump(flag, arg) == flag \/ arg \in {StrOptions, StrDumpOptions}

\* needToExit = true, in the --options branch only
NeedToExitAfter(flag, arg) == flag \/ arg = StrOptions

\* --options, --dumpOptions
ParseDumpOptions ==
    /\ InParser
    /\ argv[i] \in {StrOptions, StrDumpOptions}
    /\ needToDumpOptions' = TRUE
    /\ needToExit' = NeedToExitAfter(needToExit, argv[i])
    /\ i' = NextToken(i)
    /\ UNCHANGED <<argv, haveReadline, fillVars, hostVars, nativeLog, samplingLog, procVars, m_interactive, m_dump, m_exitCode,
                   m_profile, m_profilerOutput, m_scripts, m_arguments,
                   batchVars, replVars, out, err>>

RecognizedTokens ==
    {StrF, StrE, StrI, StrD, StrP, StrS, StrX, StrDashDash, StrH, StrHelp,
     StrOptions, StrDumpOptions}

\* the token starts with "--"
IsLongOption(arg) == Len(arg) >= 2 /\ arg[1] = "-" /\ arg[2] = "-"

\* variant: a "--" token the engine does not know is dropped
OtherTokenDropsLong(scripts, arg) ==
    IF setOption(Tail2(arg)) \/ IsLongOption(arg) THEN scripts
    ELSE Append(scripts, Script(TRUE, arg))

\* the script list after a token no strcmp matched: unchanged when
\* setOption(&arg[2]) takes the token, else the token as a file script
OtherToken(scripts, arg) ==
    IF setOption(Tail2(arg)) THEN scripts ELSE Append(scripts, Script(TRUE, arg))

\* any other token: a VM option or a file
ParseOther ==
    /\ InParser
    /\ argv[i] \notin RecognizedTokens
    /\ IF Len(argv[i]) < 2
       THEN \* &arg[2] is past the terminator: setOption reads what follows
            m_scripts' \in {m_scripts, Append(m_scripts, Script(TRUE, argv[i]))}
       ELSE m_scripts' = OtherToken(m_scripts, argv[i])
    /\ i' = NextToken(i)
    /\ UNCHANGED <<argv, haveReadline, fillVars, hostVars, nativeLog, samplingLog, procVars, needToDumpOptions, needToExit,
                   m_interactive, m_dump, m_exitCode, m_profile, m_profilerOutput,
                   m_arguments, batchVars, replVars, out, err>>

\* variant: jscmain takes no lock
JSLockHolderOmitted == FALSE

\* JSLockHolder lock(globalData.get()): the lock is held from here on
JSLockHolder == TRUE

\* variant: the flag is left as the tokens set it
ForceInteractiveOmitted(interactive, scripts) == interactive

\* if (m_scripts.isEmpty()) m_interactive = true;
ForceInteractive(interactive, scripts) == interactive \/ scripts = <<>>

\* after the token loop: force interactive, collect the arguments, dump,
\* exit; otherwise jscmain creates the runtime, takes the lock and calls
\* runWithScripts
ParseFinish ==
    /\ \/ pc = "parseArguments" /\ i > argc
       \/ pc = "parsed"
    /\ m_interactive' = ForceInteractive(m_interactive, m_scripts)
    /\ m_arguments' = SubSeq(argv, i, argc)
    /\ i' = IF i > argc THEN i ELSE argc + 1
    /\ err' = IF needToDumpOptions THEN Append(err, "Options") ELSE err
    /\ IF needToExit
       THEN /\ Exit(EXIT_SUCCESS, "options")
            /\ UNCHANGED hostVars
       ELSE /\ pc' = "runWithScripts"
            /\ globalDataCreated' = TRUE
            /\ lockHeld' = JSLockHolder
            /\ globalArguments' = finishCreation(SubSeq(argv, i, argc))
            /\ UNCHANGED <<exitStatus, exitPath, globalBindings, runLog>>
    /\ UNCHANGED <<argv, haveReadline, fillVars, nativeLog, samplingLog, needToDumpOptions, needToExit, m_dump,
                   m_exitCode, m_profile, m_profilerOutput, m_scripts,
                   batchVars, replVars, out>>

(***************************************************************************)
(* evaluate(exec, source, thisValue, &evaluationException): the engine     *)
(* runs the text in a global scope.  It reports an exception when the text *)
(* throws or when the context still holds a pending exception; what it     *)
(* leaves pending after a throw is the engine's business.  A text that     *)
(* calls quit ends the process inside the call.                            *)
(***************************************************************************)
\* variant: quit ends the process with the failure result
functionQuitFailure == FailureResult

\* functionQuit: exit(EXIT_SUCCESS)
functionQuit == EXIT_SUCCESS

Evaluation(phase, index, scope, text, threw) ==
    [phase |-> phase, index |-> index, scope |-> scope, text |-> text, threw |-> threw]

evaluate(phase, index, nextpc) ==
    LET text == jscSource(script)
        run == Evaluate(text, "global", 0)
        eff == run.effect
        threw == eff = "throw" \/ exception
    IN  /\ nativeLog' = nativeLog \o run.trace
        /\ globalBindings' = globalBindings \cup run.bound
        /\ runLog' = runLog \o run.calls
        /\ UNCHANGED <<globalDataCreated, globalArguments>>
        /\ err' = err \o OpenDiagnostics(run.trace)
        /\ IF eff = "quit"
           THEN /\ evalLog' = Append(evalLog, Evaluation(phase, index, "global", text, FALSE))
                /\ Exit(functionQuit, "quit")
                /\ UNCHANGED <<evaluationException, exception>>
           ELSE /\ evalLog' = Append(evalLog, Evaluation(phase, index, "global", text, threw))
                /\ evaluationException' = threw
                /\ exception' \in (IF threw THEN BOOLEAN ELSE {FALSE})
                /\ pc' = nextpc
                /\ UNCHANGED <<exitStatus, exitPath, lockHeld>>

\* the thrown value has a stack property (an Error object, not a primitive)
HasStack(text) == text # <<>> /\ text[1] = "#"

(***************************************************************************)
(* runWithScripts.                                                         *)
(***************************************************************************)
\* variant: a file that cannot be opened is skipped and the loop goes on
OnLoadFailureContinue(index) == [pc |-> "runWithScripts", scriptIndex |-> index + 1]

\* a file that cannot be opened: return false at once
OnLoadFailure(index) == [pc |-> "returned", scriptIndex |-> index]

\* variant: the flag reflects the last script only
NextSuccessLastOnly(flag, threw) == ~threw

\* success = success && !evaluationException;
NextSuccess(flag, threw) == flag /\ ~threw

\* variant: an evaluation exception leaves the loop
NextScriptIndexBreak(index, threw) == IF threw THEN Len(m_scripts) + 1 ELSE index + 1

\* the for loop's i++ after an evaluation
NextScriptIndex(index, threw) == index + 1

\* variant: the pending exception is left in place
clearExceptionOmitted(pending) == pending

\* globalExec()->clearException()
clearException(pending) == FALSE

\* loop head: resolve the source of scripts[i], then startSampling
\* globalData.startSampling()
startSampling(log) == Append(log, "start")

\* variant: the bracket is not closed
stopSamplingOmitted(log) == log

\* globalData.stopSampling()
stopSampling(log) == Append(log, "stop")

BatchFetch ==
    /\ pc = "runWithScripts"
    /\ scriptIndex <= Len(m_scripts)
    /\ LET s == m_scripts[scriptIndex]
           r == fillBufferWithContentsOfFile(s.argument)
       IN  IF s.isFile
           THEN /\ fileName' = s.argument
                /\ loadLog' = Append(loadLog, s.argument)
                /\ IF ~r.ok
                   THEN \* return false: fail early so we can catch missing files
                        /\ err' = Append(err, "Could not open file")
                        /\ success' = FALSE
                        /\ pc' = OnLoadFailure(scriptIndex).pc
                        /\ scriptIndex' = OnLoadFailure(scriptIndex).scriptIndex
                        /\ UNCHANGED <<script, sampling, samplingLog>>
                   ELSE /\ script' = r.buffer
                        /\ sampling' = sampling + 1
                        /\ samplingLog' = startSampling(samplingLog)
                        /\ pc' = "evaluate"
                        /\ UNCHANGED <<err, success, scriptIndex>>
           ELSE /\ script' = s.argument \o <<NUL>>
                /\ fileName' = CommandLineName
                /\ sampling' = sampling + 1
                /\ samplingLog' = startSampling(samplingLog)
                /\ pc' = "evaluate"
                /\ UNCHANGED <<err, success, loadLog, scriptIndex>>
    /\ evaluationException' = FALSE
    /\ UNCHANGED <<argv, haveReadline, fillVars, hostVars, nativeLog, exitStatus, exitPath, lockHeld, parserVars,
                   exception, evalLog, replVars, out>>

BatchEvaluate ==
    /\ pc = "evaluate"
    /\ evaluate("batch", scriptIndex, "evaluated")
    /\ UNCHANGED <<argv, haveReadline, fillVars, samplingLog, parserVars, scriptIndex, success, script,
                   fileName, sampling, loadLog, replVars, out>>

\* after evaluate: the success flag, the printing, stopSampling, clearException
BatchReport ==
    /\ pc = "evaluated"
    /\ success' = NextSuccess(success, evaluationException)
    /\ out' = out
              \o (IF m_dump /\ ~evaluationException THEN <<"End: ">> ELSE <<>>)
              \o (IF evaluationException THEN <<"Exception: ">> ELSE <<>>)
              \o (IF evaluationException /\ HasStack(jscSource(script))
                  THEN <<"stack">> ELSE <<>>)
    /\ sampling' = sampling - 1
    /\ samplingLog' = stopSampling(samplingLog)
    /\ exception' = clearException(exception)
    /\ scriptIndex' = NextScriptIndex(scriptIndex, evaluationException)
    /\ pc' = "runWithScripts"
    /\ UNCHANGED <<argv, haveReadline, fillVars, hostVars, nativeLog, exitStatus, exitPath, lockHeld, parserVars,
                   script, fileName, evaluationException, evalLog, loadLog,
                   replVars, err>>

\* loop exit: return success
BatchReturn ==
    /\ pc = "runWithScripts"
    /\ scriptIndex > Len(m_scripts)
    /\ pc' = "returned"
    /\ UNCHANGED <<argv, haveReadline, fillVars, hostVars, nativeLog, samplingLog, exitStatus, exitPath, lockHeld, parserVars,
                   batchVars, replVars, out, err>>

(***************************************************************************)
(* jscmain after runWithScripts.                                           *)
(***************************************************************************)
\* variant: the shell is entered whenever it was asked for
EnterInteractiveAlways(interactive, ok) == interactive

\* the test of: if (options.m_interactive && success)
EnterInteractive(interactive, ok) == interactive /\ ok

\* if (options.m_interactive && success) runInteractive(globalObject);
AfterBatch ==
    /\ pc = "returned"
    /\ pc' = IF EnterInteractive(m_interactive, success) THEN "runInteractive" ELSE "result"
    /\ UNCHANGED <<argv, haveReadline, fillVars, hostVars, nativeLog, samplingLog, exitStatus, exitPath, lockHeld, parserVars,
                   batchVars, replVars, out, err>>

\* variant: a failed run reports EXIT_FAILURE
ResultOfExitFailure(ok) == IF ok THEN 0 ELSE EXIT_FAILURE

\* result = success ? 0 : 3;
ResultOf(ok) == IF ok THEN 0 ELSE FailureResult

\* variant: the line always reports 0
ExitingLineZero(result) == "jsc exiting 0"

\* printf("jsc exiting %d\n", result)
ExitingLine(result) ==
    CASE result = 0 -> "jsc exiting 0"
      [] result = 1 -> "jsc exiting 1"
      [] OTHER -> "jsc exiting 3"

\* result = success ? 0 : 3; the -x line; the profiler save; return
Return ==
    /\ pc = "result"
    /\ LET result == ResultOf(success)
       IN  /\ out' = IF m_exitCode THEN Append(out, ExitingLine(result)) ELSE out
           /\ \E saved \in (IF m_profile THEN BOOLEAN ELSE {TRUE}) :
                  err' = IF saved THEN err
                         ELSE Append(err, "could not save profiler output.")
           /\ lockHeld' = FALSE
           /\ pc' = "exited"
           /\ exitStatus' = <<result>>
           /\ exitPath' = "return"
    /\ UNCHANGED <<argv, haveReadline, fillVars, hostVars, nativeLog, samplingLog, parserVars, batchVars, replVars>>

(***************************************************************************)
(* runInteractive.                                                         *)
(***************************************************************************)
StdinChars == {"a", "t", "q", NL}

\* top of the loop: the prompt (printf, or printed by readline)
Prompt ==
    /\ pc = "runInteractive"
    /\ out' = Append(out, interactivePrompt)
    /\ line' = <<>>
    /\ pc' = "readLine"
    /\ UNCHANGED <<argv, haveReadline, fillVars, hostVars, nativeLog, samplingLog, exitStatus, exitPath, lockHeld, parserVars,
                   batchVars, stdinLeft, stdinEOF, lineNo, err>>

\* one getchar() of the line read
ReadChar ==
    /\ pc = "readLine"
    /\ \E c \in (IF stdinLeft = 0 THEN {EOF} ELSE StdinChars \cup {EOF}) :
          /\ stdinEOF' = (c = EOF)
          /\ stdinLeft' = IF c = EOF THEN 0 ELSE stdinLeft - 1
          /\ line' = IF c \in {EOF, NL} THEN line ELSE Append(line, c)
          /\ pc' = IF c \in {EOF, NL} THEN "lineRead" ELSE "readLine"
    /\ UNCHANGED <<argv, haveReadline, fillVars, hostVars, nativeLog, samplingLog, exitStatus, exitPath, lockHeld, parserVars,
                   batchVars, lineNo, out, err>>

\* readline returns NULL at end-of-input with nothing typed
ReadlineNull == stdinEOF /\ line = <<>>

\* variant: only end-of-input leaves the loop
LoopBreaksOnEOF == stdinEOF

\* the loop's exit test: if (!line) break;  or  if (line.isEmpty()) break;
LoopBreaks == IF haveReadline THEN ReadlineNull ELSE line = <<>>

\* the line is read: leave the loop and print "\n", or go on to evaluate
LineRead ==
    /\ pc = "lineRead"
    /\ lineNo' = lineNo + 1
    /\ IF LoopBreaks
       THEN /\ out' = Append(out, NL)
            /\ pc' = "result"
            /\ UNCHANGED <<script, evaluationException>>
       ELSE /\ script' = line \o <<NUL>>
            /\ evaluationException' = FALSE
            /\ pc' = "replEvaluate"
            /\ UNCHANGED out
    /\ UNCHANGED <<argv, haveReadline, fillVars, hostVars, nativeLog, samplingLog, exitStatus, exitPath, lockHeld, parserVars,
                   scriptIndex, success, fileName, exception, sampling, evalLog,
                   loadLog, stdinLeft, stdinEOF, line, err>>

ReplEvaluate ==
    /\ pc = "replEvaluate"
    /\ evaluate("repl", lineNo, "replEvaluated")
    /\ UNCHANGED <<argv, haveReadline, fillVars, samplingLog, parserVars, scriptIndex, success, script,
                   fileName, sampling, loadLog, replVars, out>>

\* variant: a throwing line leaves the loop
AfterReplLineStops(threw) == IF threw THEN "result" ELSE "runInteractive"

\* the bottom of the loop body: back to while (true)
AfterReplLine(threw) == "runInteractive"

\* print the exception or the result, then clearException
ReplReport ==
    /\ pc = "replEvaluated"
    /\ out' = Append(out, IF evaluationException THEN "Exception: " ELSE "result")
    /\ exception' = clearException(exception)
    /\ pc' = AfterReplLine(evaluationException)
    /\ UNCHANGED <<argv, haveReadline, fillVars, hostVars, nativeLog, samplingLog, exitStatus, exitPath, lockHeld, parserVars,
                   scriptIndex, success, script, fileName, evaluationException,
                   sampling, evalLog, loadLog, replVars, err>>

(***************************************************************************)
(* Specifications.                                                         *)
(***************************************************************************)
Next ==
    \/ ParseScriptFlag
    \/ ParseSwitch
    \/ ParseProfile
    \/ ParseDashDash
    \/ ParseHelp
    \/ ParseDumpOptions
    \/ ParseOther
    \/ ParseFinish
    \/ BatchFetch
    \/ BatchEvaluate
    \/ BatchReport
    \/ BatchReturn
    \/ AfterBatch
    \/ Prompt
    \/ ReadChar
    \/ LineRead
    \/ ReplEvaluate
    \/ ReplReport
    \/ Return

Spec == Init /\ [][Next]_vars

\* the same program with short argument vectors and a longer standard input
InitRepl ==
    /\ FillIdle
    /\ argv \in SeqsUpTo(ArgTokens, MaxReplArgs)
    /\ stdinLeft = MaxReplInput
    /\ InitProcess

SpecRepl == InitRepl /\ [][Next]_vars

\* the same program on argument vectors with bare tokens of every shape
ParseTokens == ArgTokens \cup {StrBareOption, StrShort}

InitParse ==
    /\ FillIdle
    /\ argv \in SeqsUpTo(ParseTokens, MaxParseArgs)
    /\ stdinLeft = MaxInput
    /\ InitProcess

SpecParse == InitParse /\ [][Next]_vars

\* the same program on command lines whose -e scripts call the natives
NativeCodes ==
    {<<"R", "m">>, <<"R", "m", "c">>, <<"L", "m">>, <<"L", "m", "c">>,
     <<"C", "m">>, <<"C", "m", "c">>, <<"R", "a">>, <<"L", "a">>, <<"C", "a">>,
     <<"C", "s">>, <<"R", "t">>, <<"L", "t", "c">>, <<"L", "q">>, <<"R", "n">>,
     <<"R", "r">>, <<"R", "r", "c">>, <<"a">>}

NativePrefixes ==
    {<<>>, <<StrI>>, <<StrP, FileM>>, <<StrDumpOptions>>, <<StrH>>,
     <<FileA>>, <<StrDashDash>>}

RECURSIVE InlineScripts(_)
InlineScripts(codes) ==
    IF codes = <<>> THEN <<>>
    ELSE <<StrE, Head(codes)>> \o InlineScripts(Tail(codes))

InitNative ==
    /\ FillIdle
    /\ \E prefix \in NativePrefixes, codes \in SeqsUpTo(NativeCodes, MaxNativeScripts) :
          argv = prefix \o InlineScripts(codes)
    /\ stdinLeft = MaxInput
    /\ InitProcess

SpecNative == InitNative /\ [][Next]_vars

(***************************************************************************)
(* fillBufferWithContentsOfFile, statement by statement, on one file.      *)
(***************************************************************************)
\* what a stream opened with "r" delivers on a build whose text streams
\* translate: each CR LF pair of the file arrives as LF
RECURSIVE Translate(_, _, _)
Translate(bytes, lo, hi) ==
    IF lo > hi THEN <<>>
    ELSE IF \A k \in lo..hi : bytes[k] # CR THEN SubSeq(bytes, lo, hi)
    ELSE IF lo = hi
         THEN (IF bytes[lo] = CR /\ lo < Len(bytes) /\ bytes[lo + 1] = NL
               THEN <<>> ELSE <<bytes[lo]>>)
    ELSE LET mid == (lo + hi) \div 2
         IN  Translate(bytes, lo, mid) \o Translate(bytes, mid + 1, hi)

\* the characters fread can get from f
Stream ==
    IF textMode THEN Translate(diskFile[1], 1, Len(diskFile[1])) ELSE diskFile[1]

\* Vector<char>::resize: the old chars stay, the new ones are not written
resize(vector, size) ==
    [k \in 1..size |-> IF k <= Len(vector) THEN vector[k] ELSE Uninitialized]

\* FILE* f = fopen(..., "r"); the two counters; buffer.resize(bufferCapacity)
FillOpen ==
    /\ fillPc = "fopen"
    /\ IF diskFile = <<>>
       THEN /\ err' = Append(err, "Could not open file")
            /\ fillPc' = "failed"
            /\ UNCHANGED <<bufferSize, bufferCapacity, buffer>>
       ELSE /\ bufferSize' = 0
            /\ bufferCapacity' = InitialBufferCapacity
            /\ buffer' = resize(buffer, InitialBufferCapacity)
            /\ fillPc' = "loop"
            /\ err' = err
    /\ UNCHANGED <<argv, haveReadline, procVars, parserVars, batchVars, replVars, out,
                   hostVars, nativeLog, samplingLog, textMode, diskFile, fPos, fEOF, fError>>

\* variant: the capacity stays as it is
NextCapacityKept(size, capacity) == capacity

\* if (bufferSize == bufferCapacity) bufferCapacity *= 2;
NextCapacity(size, capacity) == IF size = capacity THEN capacity * 2 ELSE capacity

\* one turn of while (!feof(f) && !ferror(f)): the fread, then the doubling.
\* A read that fails delivers nothing and sets the error indicator.
FillRead ==
    /\ fillPc = "loop"
    /\ ~fEOF /\ ~fError
    /\ \E failed \in BOOLEAN :
        LET wanted == bufferCapacity - bufferSize
            got == IF failed THEN 0 ELSE Min(wanted, Len(Stream) - fPos)
            size == bufferSize + got
            filled == SubSeq(buffer, 1, bufferSize)
                          \o SubSeq(Stream, fPos + 1, fPos + got)
                          \o SubSeq(buffer, size + 1, Len(buffer))
            capacity == NextCapacity(size, bufferCapacity)
        IN  /\ fPos' = fPos + got
            /\ fError' = failed
            /\ fEOF' = (~failed /\ got < wanted)
            /\ bufferSize' = size
            /\ bufferCapacity' = capacity
            /\ buffer' = IF capacity # bufferCapacity THEN resize(filled, capacity)
                         ELSE filled
    /\ UNCHANGED <<mainVars, textMode, fillPc, diskFile>>

\* fclose, the terminator, the shebang line turned into a comment
FillFinish ==
    /\ fillPc = "loop"
    /\ fEOF \/ fError
    /\ LET terminated == [buffer EXCEPT ![bufferSize + 1] = NUL]
       IN  buffer' = IF terminated[1] = "#" /\ terminated[2] = "!"
                     THEN [terminated EXCEPT ![1] = "/", ![2] = "/"]
                     ELSE terminated
    /\ fillPc' = "done"
    /\ UNCHANGED <<mainVars, textMode, diskFile, fPos, fEOF, fError, bufferSize,
                   bufferCapacity>>

NextFill == FillOpen \/ FillRead \/ FillFinish

\* the files: a freely chosen start, then filler up to a size at the
\* start's own length or around the capacity and its double
FillChars == {"#", "!", "a", CR, NL}

FileSizes(prefix) ==
    {Len(prefix)}
        \cup {InitialBufferCapacity + d : d \in {-1, 0, 1}}
        \cup {2 * InitialBufferCapacity + d : d \in {-1, 0, 1}}

Content(prefix, size) == prefix \o [k \in 1..(size - Len(prefix)) |-> "a"]

\* the Vector<char> as the script before left it: nothing for the first
\* script, else that script's characters, its terminator, and the rest of
\* the capacity it grew to
BufferLeftBy(size) ==
    resize([k \in 1..size |-> "b"] \o <<NUL>>,
           ReadLoop([k \in 1..size |-> "b"], 0, 0, InitialBufferCapacity).bufferCapacity)

ReusedBuffers ==
    {<<>>, BufferLeftBy(1), BufferLeftBy(InitialBufferCapacity),
     BufferLeftBy(2 * InitialBufferCapacity)}

InitFill ==
    /\ argv = <<>>
    /\ stdinLeft = 0
    /\ haveReadline = FALSE
    /\ InitCommandLine
    /\ textMode \in BOOLEAN
    /\ fillPc = "fopen"
    /\ \/ diskFile = <<>>
       \/ \E prefix \in SeqsUpTo(FillChars, MaxFillPrefix) :
             \E size \in FileSizes(prefix) : diskFile = <<Content(prefix, size)>>
    /\ fPos = 0
    /\ fEOF = FALSE
    /\ fError = FALSE
    /\ bufferSize = 0
    /\ bufferCapacity = 0
    /\ buffer \in ReusedBuffers

SpecFill == InitFill /\ [][NextFill]_vars

\* the process from start to end, and a fillBufferWithContentsOfFile call
\* from start to end; the process executes its next statement whenever it
\* has one
InitLive ==
    /\ FillIdle
    /\ argv \in SeqsUpTo(ArgTokens, MaxLiveArgs)
    /\ stdinLeft = MaxLiveInput
    /\ InitProcess

\* a call on a file that is missing or has a length at or around the
\* capacity and its double, with the Vector of a first script
InitFillLive ==
    /\ argv = <<>>
    /\ stdinLeft = 0
    /\ haveReadline = FALSE
    /\ InitCommandLine
    /\ textMode = FALSE
    /\ fillPc = "fopen"
    /\ \/ diskFile = <<>>
       \/ \E size \in FileSizes(<<>>) : diskFile = <<Content(<<>>, size)>>
    /\ fPos = 0
    /\ fEOF = FALSE
    /\ fError = FALSE
    /\ bufferSize = 0
    /\ bufferCapacity = 0
    /\ buffer = <<>>

InitTerminates == InitLive \/ InitFillLive

NextTerminates == (fillPc = "idle" /\ Next) \/ NextFill

SpecTerminates ==
    InitTerminates /\ [][NextTerminates]_vars /\ WF_vars(NextTerminates)

(***************************************************************************)
(* What a run has done so far, read off the logs.                          *)
(***************************************************************************)
\* the batch driver tried to open a file that does not exist
LoadFailed == \E k \in 1..Len(loadLog) : ~FileExists(loadLog[k])

\* a script of the batch threw when evaluated
SomeScriptThrew ==
    \E k \in 1..Len(evalLog) :
        evalLog[k].phase = "batch" /\ Effect(evalLog[k].text) = "throw"

BatchEvaluations == {k \in 1..Len(evalLog) : evalLog[k].phase = "batch"}
ReplEvaluations == {k \in 1..Len(evalLog) : evalLog[k].phase = "repl"}

\* every script of the list was loaded and evaluated, none threw
AllScriptsClean ==
    /\ Cardinality(BatchEvaluations) = Len(m_scripts)
    /\ ~LoadFailed
    /\ ~SomeScriptThrew

Occurrences(seq, x) == Cardinality({k \in 1..Len(seq) : seq[k] = x})

\* the paths the batch driver opens for a list of scripts
RECURSIVE LoadsOf(_)
LoadsOf(scripts) ==
    IF scripts = <<>> THEN <<>>
    ELSE (IF Head(scripts).isFile THEN <<Head(scripts).argument>> ELSE <<>>)
         \o LoadsOf(Tail(scripts))

\* the first n evaluations are the first n scripts, in order, in the
\* top-level global scope
EvaluatedInOrder(n) ==
    /\ Len(evalLog) >= n
    /\ \A k \in 1..n :
          /\ evalLog[k].phase = "batch"
          /\ evalLog[k].index = k
          /\ evalLog[k].scope = "global"

(***************************************************************************)
(* C1: runWithScripts returns false if and only if some script failed to   *)
(* load or threw when evaluated; otherwise (the empty list included) it    *)
(* returns true.                                                           *)
(***************************************************************************)
C1_ReturnsFalseIffFailure ==
    pc = "returned" => (~success <=> (LoadFailed \/ SomeScriptThrew))

\* the driver returned false after a throwing script and a clean one
C1_Witness ==
    /\ pc = "returned"
    /\ ~success
    /\ ~LoadFailed
    /\ Len(evalLog) >= 2
    /\ evalLog[1].threw
    /\ ~evalLog[Len(evalLog)].threw

(***************************************************************************)
(* C2 as stated: once the runtime exists, the exit status is 0 when every  *)
(* script loaded and evaluated without exception and 3 when some script    *)
(* threw or some load failed, whatever the later scripts do.               *)
(***************************************************************************)
C2_StatusWhateverFollows ==
    (pc = "exited" /\ exitPath \in {"return", "quit"}) =>
        /\ AllScriptsClean => exitStatus = <<0>>
        /\ (LoadFailed \/ SomeScriptThrew) => exitStatus = <<FailureResult>>

(***************************************************************************)
(* C2 amended: the exit status is 0 when every script loaded and evaluated *)
(* without exception; when some script threw or some load failed it is 3   *)
(* unless a later script calls quit, which ends the process with status 0. *)
(***************************************************************************)
C2_StatusUnlessQuit ==
    (pc = "exited" /\ exitPath \in {"return", "quit"}) =>
        /\ AllScriptsClean => exitStatus = <<0>>
        /\ (LoadFailed \/ SomeScriptThrew) =>
              exitStatus = <<IF exitPath = "quit" THEN 0 ELSE FailureResult>>

\* exit status 3 although the script after the throwing one was clean
C2_Witness ==
    /\ pc = "exited"
    /\ exitStatus = <<FailureResult>>
    /\ Len(evalLog) >= 2
    /\ evalLog[1].threw
    /\ ~evalLog[2].threw

(***************************************************************************)
(* C3: when the i-th script is a file that cannot be opened, the driver    *)
(* returns false at once: scripts 1..i-1 were evaluated in order, nothing  *)
(* after position i is loaded or evaluated, and the process exits 3.       *)
(***************************************************************************)
C3_FailFast ==
    LoadFailed =>
        /\ pc \in {"returned", "result", "exited"}
        /\ ~success
        /\ scriptIndex <= Len(m_scripts)
        /\ m_scripts[scriptIndex].isFile
        /\ ~FileExists(m_scripts[scriptIndex].argument)
        /\ loadLog = LoadsOf(SubSeq(m_scripts, 1, scriptIndex))
        /\ \A k \in 1..(Len(loadLog) - 1) : FileExists(loadLog[k])
        /\ Len(evalLog) = scriptIndex - 1
        /\ EvaluatedInOrder(scriptIndex - 1)
        /\ pc = "exited" => (exitStatus = <<FailureResult>> /\ exitPath = "return")

\* a missing file between two scripts; the process has exited
C3_Witness ==
    /\ pc = "exited"
    /\ LoadFailed
    /\ Len(m_scripts) = 3
    /\ scriptIndex = 2
    /\ Len(evalLog) = 1

(***************************************************************************)
(* C4: an evaluation exception does not stop the batch: when no load fails *)
(* and no script quits, the driver returns after evaluating every script   *)
(* exactly once, in order, in the same global scope; and the success flag, *)
(* once false, stays false.                                                *)
(***************************************************************************)
C4_AllEvaluated ==
    (pc = "returned" /\ ~LoadFailed) =>
        /\ Len(evalLog) = Len(m_scripts)
        /\ EvaluatedInOrder(Len(m_scripts))

C4_BatchContinues == []C4_AllEvaluated /\ [][~success => ~success']_vars

\* three scripts, the first two throw, all three were evaluated
C4_Witness ==
    /\ pc = "returned"
    /\ ~LoadFailed
    /\ Len(m_scripts) = 3
    /\ Len(evalLog) = 3
    /\ evalLog[1].threw
    /\ evalLog[2].threw
    /\ ~evalLog[3].threw

(***************************************************************************)
(* C5: no exception is pending when a batch or REPL evaluation starts; an  *)
(* evaluation is reported as throwing exactly when its own text throws,    *)
(* and one "Exception:" line is printed per throwing evaluation.           *)
(***************************************************************************)
C5_NoStaleException ==
    /\ pc \in {"evaluate", "replEvaluate"} => ~exception
    /\ \A k \in 1..Len(evalLog) :
          evalLog[k].threw <=> (Effect(evalLog[k].text) = "throw")
    /\ pc \notin {"evaluated", "replEvaluated"} =>
          Occurrences(out, "Exception: ")
              = Cardinality({k \in 1..Len(evalLog) : evalLog[k].threw})

\* script A threw, script B after it did not, and B's report is printed
C5_Witness ==
    /\ pc = "runWithScripts"
    /\ Len(evalLog) = 2
    /\ evalLog[1].threw
    /\ ~evalLog[2].threw
    /\ Occurrences(out, "Exception: ") = 1

(***************************************************************************)
(* C6: whenever parseArguments returns with an empty script list, the      *)
(* interactive flag is true, with or without -i.                           *)
(***************************************************************************)
ParserReturned ==
    /\ pc \notin {"parseArguments", "parsed"}
    /\ exitPath \notin {"usage", "help", "options"}

Range(seq) == {seq[k] : k \in 1..Len(seq)}

C6_EmptyListForcesInteractive ==
    (ParserReturned /\ m_scripts = <<>>) => m_interactive

\* the parser returned, no script, -i not given, at least one token
C6_Witness ==
    /\ ParserReturned
    /\ m_scripts = <<>>
    /\ argc >= 1
    /\ StrI \notin Range(argv)
    /\ m_interactive

(***************************************************************************)
(* C7: the interactive shell is entered if and only if the interactive     *)
(* flag is set and the batch driver returned success; it runs after the    *)
(* whole batch, in the same global scope, and never after a batch          *)
(* exception or load failure.                                              *)
(***************************************************************************)
InRepl == pc \in {"runInteractive", "readLine", "lineRead", "replEvaluate", "replEvaluated"}

\* the prompt was printed at least once
ShellEntered == Occurrences(out, interactivePrompt) > 0

C7_ShellIffRequestedAndSucceeded ==
    /\ (InRepl \/ ShellEntered) =>
          /\ m_interactive
          /\ success
          /\ ~LoadFailed
          /\ ~SomeScriptThrew
          /\ Cardinality(BatchEvaluations) = Len(m_scripts)
          /\ EvaluatedInOrder(Len(m_scripts))
          /\ \A k \in ReplEvaluations :
                k > Len(m_scripts) /\ evalLog[k].scope = evalLog[1].scope
    /\ pc = "result" => (ShellEntered <=> (m_interactive /\ success))

\* a REPL line is about to be evaluated after a batch of one script or more
C7_Witness ==
    /\ pc = "replEvaluate"
    /\ Len(m_scripts) >= 1
    /\ StrI \in Range(argv)

(***************************************************************************)
(* C8: a throwing REPL line prints "Exception: ...", the exception is      *)
(* cleared and the loop goes back to the prompt; throwing lines neither    *)
(* end the session nor change the exit status, which at end-of-input is 0. *)
(***************************************************************************)
C8_AfterThrowingLine ==
    (pc = "replEvaluated" /\ evaluationException) =>
        /\ out' = Append(out, "Exception: ")
        /\ ~exception'
        /\ pc' = "runInteractive"
        /\ exitStatus' = <<>>
        /\ success' = success

C8_SessionSurvives ==
    /\ ShellEntered => success
    /\ (pc = "exited" /\ ShellEntered /\ exitPath = "return") => exitStatus = <<0>>

C8_ReplExceptionsTransient == []C8_SessionSurvives /\ [][C8_AfterThrowingLine]_vars

\* two REPL lines threw and the process returned 0
C8_Witness ==
    /\ pc = "exited"
    /\ exitPath = "return"
    /\ exitStatus = <<0>>
    /\ Cardinality({k \in ReplEvaluations : evalLog[k].threw}) >= 2

(***************************************************************************)
(* C9 as stated: the interactive loop stops when, and only when, a read    *)
(* hits end-of-input or the first read is empty; the terminating read is   *)
(* not evaluated.                                                          *)
(***************************************************************************)
StopsAsStated == stdinEOF \/ (lineNo = 1 /\ line = <<>>)

C9_StopsOnEOFOrEmptyFirstRead ==
    /\ pc = "replEvaluate" => ~StopsAsStated
    /\ (pc = "result" /\ ShellEntered) => StopsAsStated

(***************************************************************************)
(* C9 amended: without readline the loop stops when, and only when, a read *)
(* yields an empty line (end-of-input or a newline before any character,   *)
(* at any iteration); with readline it stops when, and only when, a read   *)
(* hits end-of-input with nothing typed.  The terminating read is not      *)
(* evaluated, every earlier read is.  With zero scripts and standard input *)
(* at end-of-input from the start: one prompt, one blank line, no          *)
(* evaluation, exit status 0.                                              *)
(***************************************************************************)
StopsInCode == IF haveReadline THEN stdinEOF /\ line = <<>> ELSE line = <<>>

C9_StopsOnEmptyRead ==
    /\ pc = "replEvaluate" => ~StopsInCode
    /\ (pc = "result" /\ ShellEntered) =>
          /\ StopsInCode
          /\ Cardinality(ReplEvaluations) = lineNo - 1
          /\ out[Len(out)] = NL
    /\ (pc = "exited" /\ exitPath = "return" /\ m_scripts = <<>>
            /\ lineNo = 1 /\ stdinEOF /\ line = <<>>) =>
          /\ Occurrences(out, interactivePrompt) = 1
          /\ Occurrences(out, NL) = 1
          /\ evalLog = <<>>
          /\ exitStatus = <<0>>

\* without readline the loop stopped on a blank line that is not the first
\* read, with input still to come
C9_Witness ==
    /\ pc = "result"
    /\ ~haveReadline
    /\ lineNo >= 2
    /\ line = <<>>
    /\ ~stdinEOF

(***************************************************************************)
(* C10: a "--" token that is none of --, --help, --options, --dumpOptions  *)
(* and that the engine's option system does not know is not an error: it   *)
(* is appended to the script list as a file script; given alone, the list  *)
(* is non-empty, interactive mode is not forced, and (no such file) the    *)
(* exit status is 3.                                                       *)
(***************************************************************************)
UnknownLongOption(arg) ==
    /\ IsLongOption(arg)
    /\ arg \notin {StrDashDash, StrHelp, StrOptions, StrDumpOptions}
    /\ ~setOption(Tail2(arg))

C10_AppendedAsFile ==
    (InParser /\ UnknownLongOption(argv[i])) =>
        /\ m_scripts' = Append(m_scripts, Script(TRUE, argv[i]))
        /\ i' = i + 1
        /\ pc' = "parseArguments"
        /\ exitStatus' = <<>>
        /\ err' = err
        /\ m_interactive' = m_interactive

C10_GivenAlone ==
    (argc = 1 /\ UnknownLongOption(argv[1]) /\ ~FileExists(argv[1])
            /\ pc # "parseArguments") =>
        /\ m_scripts = <<Script(TRUE, argv[1])>>
        /\ ~m_interactive
        /\ "Usage" \notin Range(err)
        /\ pc = "exited" => (exitStatus = <<FailureResult>> /\ evalLog = <<>>)

C10_UnknownLongOptionIsFile == []C10_GivenAlone /\ [][C10_AppendedAsFile]_vars

\* the unknown long option given alone; the process exited 3
C10_Witness ==
    /\ pc = "exited"
    /\ argv = <<StrUnknown>>
    /\ exitStatus = <<FailureResult>>
    /\ loadLog = <<StrUnknown>>

(***************************************************************************)
(* C11: every token met during flag parsing that is none of the recognized *)
(* flags and does not start with "--" is appended to the script list as a  *)
(* file script whose payload is the token, whatever its text and whatever  *)
(* the option system answers for it.                                       *)
(***************************************************************************)
BareToken(arg) == arg \notin RecognizedTokens /\ ~IsLongOption(arg)

C11_BareTokenStep ==
    (InParser /\ BareToken(argv[i])) =>
        m_scripts' = Append(m_scripts, Script(TRUE, argv[i]))

C11_BareTokenIsFile == [][C11_BareTokenStep]_vars

\* a bare token the option system took: parsing went on with no script
C11_Swallowed ==
    /\ argv = <<StrBareOption>>
    /\ pc = "runInteractive"
    /\ m_scripts = <<>>
    /\ m_interactive

(***************************************************************************)
(* C12: the first "--" met during flag parsing stops flag parsing: the     *)
(* trailing-argument list is exactly the tokens after it, in order, none   *)
(* of them treated as a flag or a script; it is empty when no "--" is met; *)
(* the arguments array of the top-level global object has the same length  *)
(* and the same elements at the same indices.                              *)
(***************************************************************************)
\* where the flag section of an argument vector ends, read off the vector
RECURSIVE FlagSection(_, _)
FlagSection(args, k) ==
    IF k > Len(args) THEN [kind |-> "end", at |-> k]
    ELSE IF args[k] \in {StrF, StrE, StrP}
         THEN IF k = Len(args) THEN [kind |-> "missing", at |-> k]
              ELSE FlagSection(args, k + 2)
    ELSE IF args[k] = StrDashDash THEN [kind |-> "dashdash", at |-> k]
    ELSE IF args[k] \in {StrH, StrHelp} THEN [kind |-> "help", at |-> k]
    ELSE FlagSection(args, k + 1)

TokensAfterDashDash ==
    LET s == FlagSection(argv, 1)
    IN  IF s.kind = "dashdash" THEN SubSeq(argv, s.at + 1, argc) ELSE <<>>

C12_TrailingArguments ==
    /\ (pc \notin {"parseArguments", "parsed"} /\ exitPath \notin {"usage", "help"}) =>
          m_arguments = TokensAfterDashDash
    /\ globalDataCreated =>
          /\ DOMAIN globalArguments = 0..(Len(m_arguments) - 1)
          /\ \A k \in 0..(Len(m_arguments) - 1) :
                globalArguments[k] = m_arguments[k + 1]

\* once "--" was met no token changes the scripts or the switches, and
\* neither help nor usage is printed
C12_AfterDashDashStep ==
    pc = "parsed" =>
        /\ m_scripts' = m_scripts
        /\ m_interactive' = (m_interactive \/ m_scripts = <<>>)
        /\ <<m_dump', m_exitCode', m_profile', m_profilerOutput'>>
              = <<m_dump, m_exitCode, m_profile, m_profilerOutput>>
        /\ <<needToDumpOptions', needToExit'>> = <<needToDumpOptions, needToExit>>
        /\ exitPath' \notin {"help", "usage"}
        /\ "Usage" \notin Range(err')

C12_DashDashStopsParsing == []C12_TrailingArguments /\ [][C12_AfterDashDashStep]_vars

\* `-- -h -f`: two trailing arguments that look like flags, bound in the
\* global object, and the run ended without usage
C12_Witness ==
    /\ argv = <<StrDashDash, StrH, StrF>>
    /\ pc = "exited"
    /\ exitPath = "return"
    /\ m_arguments = <<StrH, StrF>>
    /\ globalArguments[0] = StrH
    /\ globalArguments[1] = StrF
    /\ err = <<>>

(***************************************************************************)
(* C13: when -f, -e or -p is the last token of the flag section, its       *)
(* argument missing, the process prints usage and exits with failure       *)
(* status from inside the parser: the engine runtime is never created and  *)
(* no script is loaded or evaluated, whatever scripts or flags precede it. *)
(***************************************************************************)
\* the flag section of the vector ends in -f, -e or -p with nothing after
RECURSIVE DanglingFlag(_, _)
DanglingFlag(args, k) ==
    IF k > Len(args) THEN FALSE
    ELSE IF args[k] \in {StrF, StrE, StrP}
         THEN IF k = Len(args) THEN TRUE ELSE DanglingFlag(args, k + 2)
    ELSE IF args[k] = StrDashDash THEN FALSE
    ELSE DanglingFlag(args, k + 1)

NothingRan ==
    /\ ~globalDataCreated
    /\ loadLog = <<>>
    /\ evalLog = <<>>
    /\ nativeLog = <<>>
    /\ pc \in {"parseArguments", "exited"}

\* the usage exit is taken by the parser, on the dangling flag itself
C13_UsageStep ==
    exitPath' = "usage" =>
        \/ exitPath = "usage"
        \/ /\ InParser
           /\ i = argc
           /\ argv[i] \in {StrF, StrE, StrP}
           /\ exitStatus' = <<EXIT_FAILURE>>
           /\ m_scripts' = m_scripts

\* as stated: failure status whatever precedes the dangling flag
C13_FailureWhateverPrecedes ==
    DanglingFlag(argv, 1) =>
        /\ NothingRan
        /\ pc = "exited" =>
              /\ exitPath = "usage"
              /\ exitStatus = <<EXIT_FAILURE>>
              /\ Occurrences(err, "Usage") = 1

C13_UsageWhateverPrecedes == []C13_FailureWhateverPrecedes /\ [][C13_UsageStep]_vars

\* as the code has it: a help flag met first wins, with success status
C13_StatusUnlessHelpFirst ==
    DanglingFlag(argv, 1) =>
        /\ NothingRan
        /\ pc = "exited" =>
              /\ Occurrences(err, "Usage") = 1
              /\ IF FlagSection(argv, 1).kind = "missing"
                 THEN exitPath = "usage" /\ exitStatus = <<EXIT_FAILURE>>
                 ELSE exitPath = "help" /\ exitStatus = <<EXIT_SUCCESS>>

C13_UsageUnlessHelpFirst == []C13_StatusUnlessHelpFirst /\ [][C13_UsageStep]_vars

\* `--options a.js -f`: a valid script and --options, then the dangling -f
C13_Witness ==
    /\ argv = <<StrOptions, FileA, StrF>>
    /\ pc = "exited"
    /\ exitPath = "usage"
    /\ exitStatus = <<EXIT_FAILURE>>
    /\ m_scripts = <<Script(TRUE, FileA)>>
    /\ needToExit

(***************************************************************************)
(* C14: a file that cannot be opened inside run, load or checkSyntax never *)
(* terminates the process and never aborts the batch: the native throws a  *)
(* catchable "Could not open file." error into the calling script, nothing *)
(* is evaluated for that call, and a script that catches it continues and  *)
(* counts as successful.                                                   *)
(***************************************************************************)
\* the script text is a native call on a name no file has
OpenFailureCall(text) == IsNativeCall(text) /\ ~FileExists(NativeArgument(text))

NewNativeEvents == {k \in 1..Len(nativeLog') : k > Len(nativeLog)}

\* a batch script that is such a call: one openFailed event and no nested
\* evaluation, the script throws exactly when it does not catch, and the
\* driver goes on to its report
C14_OpenFailureStep ==
    LET text == jscSource(script)
    IN  (pc = "evaluate" /\ OpenFailureCall(text)) =>
            /\ nativeLog' = Append(nativeLog,
                   NativeEvent(NativeName(text), NativeArgument(text), "openFailed", "global", 1))
            /\ Len(evalLog') = Len(evalLog) + 1
            /\ evalLog'[Len(evalLog')].threw = ~InTryCatch(text)
            /\ evaluationException' = ~InTryCatch(text)
            /\ pc' = "evaluated"
            /\ exitStatus' = <<>>

\* at any depth: a step in which some open failed does not end the process
C14_NoExitStep ==
    (\E k \in NewNativeEvents : nativeLog'[k].what = "openFailed") =>
        /\ exitStatus' = <<>>
        /\ pc' \in {"evaluated", "replEvaluated"}

\* when the driver returns every script was evaluated, in order, unless a
\* command-line file failed to load; it returns true when no script threw
C14_BatchNotAborted ==
    (pc = "returned" /\ ~LoadFailed) =>
        /\ Cardinality(BatchEvaluations) = Len(m_scripts)
        /\ EvaluatedInOrder(Len(m_scripts))
        /\ (\A k \in BatchEvaluations :
                OpenFailureCall(evalLog[k].text) /\ InTryCatch(evalLog[k].text)) => success

C14_OpenFailureIsCatchable ==
    []C14_BatchNotAborted /\ [][C14_OpenFailureStep /\ C14_NoExitStep]_vars

\* -e 'run("m.js")' -e 'try { load("m.js") } catch (e) { }': both opens
\* failed, the second script ran after the first threw and did not throw
C14_Witness ==
    /\ argv = <<StrE, <<"R", "m">>, StrE, <<"L", "m", "c">>>>
    /\ pc = "returned"
    /\ ~success
    /\ Len(evalLog) = 2
    /\ evalLog[1].threw
    /\ ~evalLog[2].threw
    /\ Len(nativeLog) = 2
    /\ \A k \in 1..2 : nativeLog[k].what = "openFailed"

(***************************************************************************)
(* C15: for every file content (empty, one-byte and exactly-capacity-sized *)
(* files included) fillBufferWithContentsOfFile yields the file's bytes    *)
(* followed by a null terminator, except that when the first two bytes are *)
(* "#!" exactly those two are replaced by "//" and all remaining bytes are *)
(* unchanged; a file not beginning with "#!" is returned byte-identical.   *)
(***************************************************************************)
\* the buffer up to the terminator the function wrote
Yield == SubSeq(buffer, 1, bufferSize + 1)

BeginsWithShebang(bytes) == Len(bytes) >= 2 /\ bytes[1] = "#" /\ bytes[2] = "!"

ExpectedBuffer(bytes) ==
    (IF BeginsWithShebang(bytes)
     THEN <<"/", "/">> \o SubSeq(bytes, 3, Len(bytes)) ELSE bytes) \o <<NUL>>

FillYieldsStream ==
    fillPc = "done" /\ ~fError =>
        /\ Yield = ExpectedBuffer(Stream)
        /\ Yield = BufferOf(Stream)
        /\ ~textMode => Yield = ExpectedBuffer(diskFile[1])
        /\ bufferSize < bufferCapacity
        /\ Len(buffer) = bufferCapacity

\* a file whose bytes are CR, LF read on a translating build: the CR is
\* not in the buffer
C15_CarriageReturnLost ==
    /\ fillPc = "done"
    /\ textMode
    /\ diskFile = <<<<CR, NL>>>>
    /\ Yield = <<NL, NUL>>

(***************************************************************************)
(* C16: whenever an evaluation or syntax check is in progress (a batch     *)
(* script, a REPL line, the body of run, load or checkSyntax) the engine   *)
(* lock is held; two evaluations are never in progress concurrently: an    *)
(* evaluation started by run or load is strictly nested inside the calling *)
(* evaluation and completes before the caller resumes.                     *)
(***************************************************************************)
\* the calls still open after a run of native events, read with a stack:
\* an enter pushes, a leave must match the top, every event is one level
\* below the calls open around it
RECURSIVE OpenCalls(_, _)
OpenCalls(trace, stack) ==
    IF trace = <<>> THEN [nested |-> TRUE, stack |-> stack]
    ELSE LET e == Head(trace)
             call == <<e.native, e.file>>
         IN  IF e.what = "leave"
             THEN IF stack # <<>> /\ stack[Len(stack)] = call /\ e.depth = Len(stack)
                  THEN OpenCalls(Tail(trace), SubSeq(stack, 1, Len(stack) - 1))
                  ELSE [nested |-> FALSE, stack |-> stack]
             ELSE IF e.depth # Len(stack) + 1 THEN [nested |-> FALSE, stack |-> stack]
             ELSE OpenCalls(Tail(trace),
                            IF e.what = "enter" THEN Append(stack, call) ELSE stack)

NewNativeTrace == SubSeq(nativeLog', Len(nativeLog) + 1, Len(nativeLog'))

C16_LockHeld ==
    /\ pc \in {"evaluate", "replEvaluate"} => lockHeld
    /\ (evalLog # <<>> \/ nativeLog # <<>>) => (lockHeld \/ exitPath = "return")

\* a step evaluates one top-level source at most, under the lock from its
\* start to its end; the native calls inside it nest, and all of them have
\* returned when the step ends unless quit ended the process inside them
C16_NestedStep ==
    /\ Len(evalLog') <= Len(evalLog) + 1
    /\ (evalLog' # evalLog \/ nativeLog' # nativeLog) =>
          /\ lockHeld /\ lockHeld'
          /\ Len(evalLog') = Len(evalLog) + 1
          /\ OpenCalls(NewNativeTrace, <<>>).nested
          /\ exitPath' # "quit" => OpenCalls(NewNativeTrace, <<>>).stack = <<>>

C16_EvaluationsUnderLockAndNested == []C16_LockHeld /\ [][C16_NestedStep]_vars

\* -e 'run("r.js")': r.js loads a missing file inside the run, and the run
\* has returned into the -e script, which threw
C16_Witness ==
    /\ pc = "evaluated"
    /\ lockHeld
    /\ Len(nativeLog) = 3
    /\ nativeLog[1] = NativeEvent("run", FileR, "enter", "fresh", 1)
    /\ nativeLog[2] = NativeEvent("load", FileM, "openFailed", "fresh", 2)
    /\ nativeLog[3] = NativeEvent("run", FileR, "leave", "fresh", 1)
    /\ evaluationException

(***************************************************************************)
(* C17: the startSampling and stopSampling calls of the batch driver       *)
(* strictly alternate, beginning with a start: each script whose source    *)
(* was resolved gets exactly one start before its evaluation and exactly   *)
(* one stop after it (also when it throws), no second start comes before   *)
(* the matching stop, and no bracket is open when the driver returns, the  *)
(* fail-fast return included.                                              *)
(***************************************************************************)
Alternates(log) ==
    \A k \in 1..Len(log) : log[k] = (IF k % 2 = 1 THEN "start" ELSE "stop")

\* a batch script called quit: the process ended inside its evaluation
QuitInBatch ==
    /\ exitPath = "quit"
    /\ evalLog[Len(evalLog)].phase = "batch"

\* the brackets while the driver runs and after it returned
BracketsWhileRunning ==
    /\ Alternates(samplingLog)
    /\ pc = "evaluate" => Len(samplingLog) = 2 * Len(evalLog) + 1
    /\ pc = "evaluated" => Len(samplingLog) = 2 * Len(evalLog) - 1
    /\ pc \notin {"evaluate", "evaluated", "exited"} =>
          Len(samplingLog) = 2 * Cardinality(BatchEvaluations)
    /\ pc = "runWithScripts" => Len(samplingLog) = 2 * (scriptIndex - 1)

\* as stated: every evaluated script has its stop, however the run ended
C17_EveryBracketClosed ==
    /\ BracketsWhileRunning
    /\ pc = "exited" => Len(samplingLog) = 2 * Cardinality(BatchEvaluations)

\* as the code has it: the script that calls quit gets no stop
C17_BracketClosedUnlessQuit ==
    /\ BracketsWhileRunning
    /\ pc = "exited" =>
          Len(samplingLog) = 2 * Cardinality(BatchEvaluations)
                                 - (IF QuitInBatch THEN 1 ELSE 0)

\* a.js then q.js: the first bracket closed, the second opened, the
\* process ended by quit
C17_Witness ==
    /\ argv = <<FileA, FileQ>>
    /\ pc = "exited"
    /\ exitPath = "quit"
    /\ samplingLog = <<"start", "stop", "start">>

\* t.js then m.js: a bracket closed around a throwing script, none opened
\* for the file that failed to load, the driver returned
C17_FailFastWitness ==
    /\ argv = <<FileT, FileM>>
    /\ pc = "returned"
    /\ LoadFailed
    /\ samplingLog = <<"start", "stop">>

(***************************************************************************)
(* C18: a call to quit from a batch script, a REPL line or a nested        *)
(* run/load terminates the process immediately with success status 0: no   *)
(* later script or REPL line is evaluated, and the status is 0 whatever    *)
(* exceptions earlier scripts raised.                                      *)
(***************************************************************************)
\* the source about to be evaluated calls quit, itself or in a file it
\* runs or loads
AboutToQuit ==
    /\ pc \in {"evaluate", "replEvaluate"}
    /\ Evaluate(jscSource(script), "global", 0).effect = "quit"

C18_QuitStep ==
    /\ AboutToQuit =>
          /\ pc' = "exited"
          /\ exitPath' = "quit"
          /\ exitStatus' = <<EXIT_SUCCESS>>
          /\ out' = out
          /\ Len(evalLog') = Len(evalLog) + 1
    /\ pc = "exited" => (evalLog' = evalLog /\ nativeLog' = nativeLog)

C18_QuitState ==
    exitPath = "quit" =>
        /\ pc = "exited"
        /\ exitStatus = <<EXIT_SUCCESS>>
        /\ Evaluate(evalLog[Len(evalLog)].text, "global", 0).effect = "quit"
        /\ \A k \in 1..(Len(evalLog) - 1) :
              Evaluate(evalLog[k].text, "global", 0).effect # "quit"

C18_QuitEndsWithSuccess == []C18_QuitState /\ [][C18_QuitStep]_vars

\* -e 'run("t.js")' -e 'run("n.js")': the first script threw, then n.js
\* loaded q.js, which called quit two calls deep
C18_Witness ==
    /\ argv = <<StrE, <<"R", "t">>, StrE, <<"R", "n">>>>
    /\ exitPath = "quit"
    /\ exitStatus = <<EXIT_SUCCESS>>
    /\ ~success
    /\ evalLog[1].threw
    /\ Len(evalLog) = 2
    /\ nativeLog[Len(nativeLog)] = NativeEvent("load", FileQ, "enter", "fresh", 2)

\* quit typed at the prompt
C18_ReplQuit ==
    /\ exitPath = "quit"
    /\ evalLog[Len(evalLog)].phase = "repl"

(***************************************************************************)
(* C19: when -x was given and the run returns from jscmain, exactly one    *)
(* line "jsc exiting <code>" is printed, after the batch and the           *)
(* interactive phase and before returning, and <code> is the exit status   *)
(* returned (0 or 3); a failure to save the profiler output afterwards     *)
(* does not change that status.                                            *)
(***************************************************************************)
ExitingLines == {"jsc exiting 0", "jsc exiting 1", "jsc exiting 3"}

\* the number a "jsc exiting" line shows
CodeShown(text) ==
    CASE text = "jsc exiting 0" -> 0
      [] text = "jsc exiting 1" -> 1
      [] text = "jsc exiting 3" -> 3

ExitingLinesPrinted == {k \in 1..Len(out) : out[k] \in ExitingLines}

SaveFailed == "could not save profiler output." \in Range(err)

C19_ExitingLine ==
    /\ pc # "exited" => ExitingLinesPrinted = {}
    /\ exitPath = "return" =>
          /\ exitStatus = <<IF success THEN 0 ELSE FailureResult>>
          /\ SaveFailed => m_profile
          /\ IF m_exitCode
             THEN /\ ExitingLinesPrinted = {Len(out)}
                  /\ <<CodeShown(out[Len(out)])>> = exitStatus
             ELSE ExitingLinesPrinted = {}
    /\ exitPath \notin {"none", "return"} => ExitingLinesPrinted = {}

\* the line and the status are settled in the one step that returns
C19_ReturnStep ==
    (pc = "result") =>
        /\ pc' = "exited"
        /\ exitPath' = "return"
        /\ SubSeq(out', 1, Len(out)) = out
        /\ Len(out') = Len(out) + (IF m_exitCode THEN 1 ELSE 0)

C19_ExitCodeLine == []C19_ExitingLine /\ [][C19_ReturnStep]_vars

\* -x -p m.js: no script, the shell ran to end-of-input, the line shows 0,
\* then saving the profile failed and the status is still 0
C19_Witness ==
    /\ argv = <<StrX, StrP, FileM>>
    /\ exitPath = "return"
    /\ out[Len(out)] = "jsc exiting 0"
    /\ SaveFailed
    /\ exitStatus = <<0>>

\* -x t.js: the script threw, the line shows 3
C19_FailureWitness ==
    /\ argv = <<StrX, FileT>>
    /\ exitPath = "return"
    /\ out[Len(out)] = "jsc exiting 3"
    /\ exitStatus = <<FailureResult>>

(***************************************************************************)
(* C20: when --options is in the flag section and parsing completes (no    *)
(* usage violation, no help flag) the parser consumes all remaining tokens *)
(* first, dumps the options once and exits with status 0 without creating  *)
(* the runtime or evaluating any script; --dumpOptions alone dumps the     *)
(* options once and the run continues normally.                            *)
(***************************************************************************)
\* what the flag section of the vector asks of the option dump, read off
\* the vector: "cut" when a help flag or a dangling -f, -e or -p ends the
\* parsing, "exit" with --options in flag position, "dump" with
\* --dumpOptions only, "none" otherwise
RECURSIVE OptionsAsked(_, _)
OptionsAsked(args, k) ==
    IF k > Len(args) THEN "none"
    ELSE IF args[k] \in {StrF, StrE, StrP}
         THEN IF k = Len(args) THEN "cut" ELSE OptionsAsked(args, k + 2)
    ELSE IF args[k] = StrDashDash THEN "none"
    ELSE IF args[k] \in {StrH, StrHelp} THEN "cut"
    ELSE LET rest == OptionsAsked(args, k + 1)
         IN  IF rest = "cut" THEN "cut"
             ELSE IF args[k] = StrOptions THEN "exit"
             ELSE IF args[k] = StrDumpOptions /\ rest = "none" THEN "dump"
             ELSE rest

StillParsing == pc \in {"parseArguments", "parsed"}

OptionsDumps == Occurrences(err, "Options")

C20_OptionsState ==
    IF StillParsing
    THEN OptionsDumps = 0 /\ ~globalDataCreated /\ evalLog = <<>>
    ELSE LET asked == OptionsAsked(argv, 1)
         IN  /\ asked = "exit" =>
                   /\ pc = "exited"
                   /\ exitPath = "options"
                   /\ exitStatus = <<EXIT_SUCCESS>>
                   /\ OptionsDumps = 1
                   /\ i = argc + 1
                   /\ m_arguments = TokensAfterDashDash
                   /\ ~globalDataCreated
                   /\ ~lockHeld
                   /\ evalLog = <<>> /\ loadLog = <<>>
                   /\ nativeLog = <<>> /\ samplingLog = <<>>
                   /\ out = <<>>
             /\ asked \in {"none", "dump"} =>
                   /\ OptionsDumps = (IF asked = "dump" THEN 1 ELSE 0)
                   /\ exitPath # "options"
                   /\ globalDataCreated

\* the dump is made once, by the step that ends the parsing, after the
\* last token; the exit asked for by --options is taken in that step
C20_DumpStep ==
    /\ OptionsDumps' # OptionsDumps =>
          /\ StillParsing /\ ~StillParsing'
          /\ OptionsDumps' = OptionsDumps + 1
          /\ i' = argc + 1
    /\ exitPath' = "options" =>
          \/ exitPath = "options"
          \/ StillParsing /\ needToExit /\ OptionsDumps' = OptionsDumps + 1

C20_OptionsThenExit == []C20_OptionsState /\ [][C20_DumpStep]_vars

\* --options a.js --dumpOptions: the later tokens were parsed, one dump,
\* exit 0, and a.js was never opened
C20_Witness ==
    /\ argv = <<StrOptions, FileA, StrDumpOptions>>
    /\ exitPath = "options"
    /\ exitStatus = <<EXIT_SUCCESS>>
    /\ m_scripts = <<Script(TRUE, FileA)>>
    /\ i = 4
    /\ OptionsDumps = 1
    /\ loadLog = <<>>

\* --dumpOptions a.js: one dump, then a.js ran and the process returned 0
C20_DumpOptionsWitness ==
    /\ argv = <<StrDumpOptions, FileA>>
    /\ exitPath = "return"
    /\ exitStatus = <<0>>
    /\ OptionsDumps = 1
    /\ Len(evalLog) = 1

(***************************************************************************)
(* C21: the token consumed as the argument of -f, -e or -p is never        *)
(* interpreted as a flag: it becomes the payload verbatim and leaves every *)
(* flag unchanged (`-e -i` adds the inline script "-i" and leaves          *)
(* interactive false; `-f --` adds the file script "--" and does not stop  *)
(* flag parsing); the script list is the script-producing tokens in        *)
(* encounter order.                                                        *)
(***************************************************************************)
\* the command line a vector stands for, read off the vector from token k
\* on: the scripts in order and the switches met in flag position
RECURSIVE CommandLineOf(_, _)
CommandLineOf(args, k) ==
    IF k > Len(args) \/ args[k] \in {StrDashDash, StrH, StrHelp}
    THEN [scripts |-> <<>>, switches |-> {}, profilerOutput |-> <<>>]
    ELSE IF args[k] \in {StrF, StrE, StrP}
    THEN IF k = Len(args)
         THEN [scripts |-> <<>>, switches |-> {}, profilerOutput |-> <<>>]
         ELSE LET rest == CommandLineOf(args, k + 2)
              IN  IF args[k] = StrP
                  THEN [rest EXCEPT !.profilerOutput =
                           IF rest.profilerOutput = <<>> THEN <<args[k + 1]>> ELSE @]
                  ELSE [rest EXCEPT !.scripts =
                           <<Script(args[k] = StrF, args[k + 1])>> \o @]
    ELSE LET rest == CommandLineOf(args, k + 1)
         IN  IF args[k] \in {StrI, StrD, StrS, StrX, StrOptions, StrDumpOptions}
             THEN [rest EXCEPT !.switches = @ \cup {args[k]}]
             ELSE IF setOption(Tail2(args[k])) THEN rest
             ELSE [rest EXCEPT !.scripts = <<Script(TRUE, args[k])>> \o @]

\* the step that takes -f, -e or -p together with its argument
C21_ArgumentStep ==
    (InParser /\ argv[i] \in {StrF, StrE, StrP} /\ i < argc) =>
        /\ i' = i + 2
        /\ pc' = "parseArguments"
        /\ exitStatus' = <<>>
        /\ err' = err
        /\ <<m_interactive', m_dump', m_exitCode', needToDumpOptions', needToExit'>>
              = <<m_interactive, m_dump, m_exitCode, needToDumpOptions, needToExit>>
        /\ m_arguments' = m_arguments
        /\ IF argv[i] = StrP
           THEN /\ m_profile'
                /\ m_profilerOutput' = argv[i + 1]
                /\ m_scripts' = m_scripts
           ELSE /\ m_scripts' = Append(m_scripts, Script(argv[i] = StrF, argv[i + 1]))
                /\ <<m_profile', m_profilerOutput'>> = <<m_profile, m_profilerOutput>>

\* when the parser has returned: the scripts and the switches are those of
\* the tokens in flag position, the arguments of -f, -e and -p not among them
C21_CommandLine ==
    ParserReturned =>
        LET c == CommandLineOf(argv, 1)
        IN  /\ m_scripts = c.scripts
            /\ m_interactive = (StrI \in c.switches \/ c.scripts = <<>>)
            /\ m_dump = (StrD \in c.switches)
            /\ m_exitCode = (StrX \in c.switches)
            /\ m_profile = (c.profilerOutput # <<>>)
            /\ needToDumpOptions = (StrDumpOptions \in c.switches)
            /\ ~needToExit

C21_ArgumentIsPayload == []C21_CommandLine /\ [][C21_ArgumentStep]_vars

\* `-e -i`: the inline script "-i", interactive still false, so the
\* process returned without a prompt
C21_Witness ==
    /\ argv = <<StrE, StrI>>
    /\ exitPath = "return"
    /\ m_scripts = <<Script(FALSE, StrI)>>
    /\ ~m_interactive
    /\ ~ShellEntered

\* `-f -- -x`: the file script "--", and -x after it still parsed as a flag
C21_DashDashAsPath ==
    /\ argv = <<StrF, StrDashDash, StrX>>
    /\ ParserReturned
    /\ m_scripts = <<Script(TRUE, StrDashDash)>>
    /\ m_exitCode
    /\ m_arguments = <<>>

(***************************************************************************)
(* C22: run(path) evaluates the file in a newly created global scope whose *)
(* arguments array is empty and leaves the bindings of the caller's global *)
(* scope unchanged, and an exception raised by the file is propagated to   *)
(* the caller as a thrown error (the elapsed milliseconds are returned     *)
(* only on success); load(path) evaluates the file in the caller's own     *)
(* global scope, so its bindings are visible to the caller afterwards.     *)
(***************************************************************************)
Evaluating == pc \in {"evaluate", "replEvaluate"}

\* the text about to be evaluated is a call of the native on a file that
\* can be opened and does not quit the process
CallsNative(native) ==
    LET text == jscSource(script)
    IN  /\ Evaluating
        /\ IsNativeCall(text)
        /\ NativeName(text) = native
        /\ FileExists(NativeArgument(text))
        /\ Evaluate(text, "global", 0).effect # "quit"

\* the source text of the file a native call names
SourceOf(text) == jscSource(BufferOf(FileBytes(NativeArgument(text))))

\* what the file does when evaluated on its own
FileEffect(text) == Evaluate(SourceOf(text), "file", 0).effect

C22_RunStep ==
    CallsNative("run") =>
        LET text == jscSource(script)
            call == runLog'[Len(runLog) + 1]
        IN  /\ Len(runLog') > Len(runLog)
            /\ call.file = NativeArgument(text)
            /\ call.arguments = <<>>
            /\ call.bindings = Binds(SourceOf(text))
            /\ globalBindings' = globalBindings
            /\ (call.returned = <<"elapsedMS">>) = (FileEffect(text) = "ok")
            /\ FileEffect(text) = "throw" =>
                  /\ call.threw
                  /\ call.returned = <<"undefined">>
                  /\ InTryCatch(text) \/ evaluationException'

C22_LoadStep ==
    CallsNative("load") =>
        LET text == jscSource(script)
        IN  /\ globalBindings' = globalBindings \cup Binds(SourceOf(text))
            /\ runLog' = runLog
            /\ FileEffect(text) = "throw" => InTryCatch(text) \/ evaluationException'

\* the text binds a name in the scope it is evaluated in: by itself, or by
\* the load of a file that does
BindsInCaller(text) ==
    \/ Binds(text) # {}
    \/ /\ IsNativeCall(text)
       /\ NativeName(text) = "load"
       /\ Binds(SourceOf(text)) # {}

\* every global object made by run has an empty arguments array, and the
\* top-level scope has a binding only from a top-level text or a load
C22_Scopes ==
    /\ \A k \in 1..Len(runLog) : runLog[k].arguments = <<>>
    /\ ("a" \in globalBindings) = (\E k \in 1..Len(evalLog) : BindsInCaller(evalLog[k].text))

C22_RunFreshLoadShared == []C22_Scopes /\ [][C22_RunStep /\ C22_LoadStep]_vars

\* run("a.js") then run("t.js"), with script arguments on the command line:
\* two global objects with empty arguments, a bound in the first only, the
\* second call's exception thrown into the caller
C22_Witness ==
    /\ argv = <<StrE, <<"R", "a">>, StrE, <<"R", "t">>>>
    /\ exitPath = "return"
    /\ Len(runLog) = 2
    /\ runLog[1].bindings = {"a"} /\ runLog[1].arguments = <<>>
    /\ runLog[1].returned = <<"elapsedMS">>
    /\ runLog[2].returned = <<"undefined">>
    /\ globalBindings = {}
    /\ ~evalLog[1].threw /\ evalLog[2].threw

\* load("a.js"): a is bound in the caller's global scope
C22_LoadWitness ==
    /\ argv = <<StrE, <<"L", "a">>>>
    /\ Len(evalLog) = 1
    /\ globalBindings = {"a"}
    /\ runLog = <<>>

(***************************************************************************)
(* C23: in fillBufferWithContentsOfFile bufferSize < bufferCapacity holds  *)
(* at the end of every loop iteration and at loop exit, with the capacity  *)
(* starting at 1024 and only ever doubling, so the write of the null       *)
(* terminator at index bufferSize and every read request are inside the    *)
(* buffer for every file length; this also holds when the same buffer is   *)
(* reused for successive scripts.                                          *)
(***************************************************************************)
\* 1024, 2048, 4096, ..
RECURSIVE IsDoubled(_)
IsDoubled(capacity) ==
    \/ capacity = InitialBufferCapacity
    \/ /\ capacity > InitialBufferCapacity
       /\ capacity % 2 = 0
       /\ IsDoubled(capacity \div 2)

\* at the loop head, after every iteration and after the loop
C23_RoomForTerminator ==
    fillPc \in {"loop", "done"} =>
        /\ bufferSize < bufferCapacity
        /\ Len(buffer) = bufferCapacity
        /\ IsDoubled(bufferCapacity)
        /\ fillPc = "done" => buffer[bufferSize + 1] = NUL

\* every fread asks for at least one character and for no more than the
\* buffer has left; the capacity stays or doubles; the terminator is
\* written at an index of the buffer and changes nothing but that index
\* and the shebang's two characters
C23_InsideBuffer ==
    /\ (fillPc = "fopen" /\ fillPc' = "loop") =>
           bufferCapacity' = InitialBufferCapacity /\ bufferSize' = 0
    /\ (fillPc = "loop" /\ ~fEOF /\ ~fError) =>
           /\ bufferCapacity - bufferSize >= 1
           /\ bufferSize + (bufferCapacity - bufferSize) <= Len(buffer)
           /\ bufferSize' - bufferSize <= bufferCapacity - bufferSize
           /\ bufferCapacity' \in {bufferCapacity, 2 * bufferCapacity}
           /\ bufferSize' < bufferCapacity'
    /\ (fillPc = "loop" /\ fillPc' = "done") =>
           /\ bufferSize + 1 \in DOMAIN buffer
           /\ DOMAIN buffer' = DOMAIN buffer
           /\ \A k \in DOMAIN buffer \ {1, 2, bufferSize + 1} : buffer'[k] = buffer[k]

C23_SizeBelowCapacity == []C23_RoomForTerminator /\ [][C23_InsideBuffer]_vars

\* a file of exactly twice the first capacity read into the buffer a longer
\* script left behind: the capacity doubled twice, the terminator is the
\* character after the file's last
C23_Witness ==
    /\ fillPc = "done"
    /\ ~fError
    /\ Len(diskFile[1]) = 2 * InitialBufferCapacity
    /\ bufferSize = 2 * InitialBufferCapacity
    /\ bufferCapacity = 4 * InitialBufferCapacity
    /\ buffer[bufferSize + 1] = NUL
    /\ buffer[1] = "a"

\* a one-character file read into the buffer a 2048-character script left:
\* the buffer is cut back to 1024, the old characters after the terminator
\* stay behind it
C23_ReuseWitness ==
    /\ fillPc = "done"
    /\ diskFile = <<<<"a">>>>
    /\ bufferSize = 1
    /\ bufferCapacity = InitialBufferCapacity
    /\ Len(buffer) = InitialBufferCapacity
    /\ buffer[2] = NUL
    /\ buffer[3] = "b"

(***************************************************************************)
(* C24: termination.  For every finite argument vector, finite script list *)
(* and finite standard input, provided each single evaluation terminates,  *)
(* the process eventually exits: the parser loop, the batch loop and the   *)
(* file read loop each advance on every iteration, and the interactive     *)
(* loop consumes at least one input character per iteration or stops at    *)
(* end-of-input.                                                           *)
(***************************************************************************)
\* the process has exited; the file read has returned
Terminated ==
    \/ fillPc = "idle" /\ pc = "exited" /\ exitStatus # <<>>
    \/ fillPc \in {"done", "failed"}

\* one turn of each loop
C24_Advance ==
    /\ InParser => i' > i \/ pc' = "exited"
    /\ scriptIndex' >= scriptIndex
    /\ pc = "evaluated" => scriptIndex' = scriptIndex + 1
    /\ (fillPc = "loop" /\ ~fEOF /\ ~fError) => fPos' > fPos \/ fEOF' \/ fError'
    /\ pc = "readLine" => stdinLeft' < stdinLeft \/ stdinEOF'
    /\ stdinLeft' <= stdinLeft

\* every line read so far took at least one character, until end-of-input;
\* at end-of-input with nothing typed the loop stops
C24_Consumes ==
    InRepl =>
        /\ ~stdinEOF =>
              MaxLiveInput - stdinLeft >= lineNo + (IF pc = "lineRead" THEN 1 ELSE 0)
        /\ (pc = "lineRead" /\ stdinEOF /\ line = <<>>) => LoopBreaks

C24_Terminates == <>Terminated /\ []C24_Consumes /\ [][C24_Advance]_vars

\* a process that ran a script, then read and evaluated a line of standard
\* input, met end-of-input and returned
C24_Witness ==
    /\ argv = <<FileA, StrI>>
    /\ Terminated
    /\ exitPath = "return"
    /\ Len(evalLog) = 2
    /\ evalLog[2].phase = "repl"
    /\ lineNo = 2
    /\ stdinEOF

\* a read of a 2049-character file that has returned
C24_FillWitness ==
    /\ fillPc = "done"
    /\ ~fError
    /\ fPos = 2 * InitialBufferCapacity + 1

(***************************************************************************)
(* C25: the exclusive engine lock acquired in jscmain is released on every *)
(* exit path of the process that follows its acquisition: normal return    *)
(* after the batch and interactive phases, fail-fast return after a load   *)
(* failure, and termination from script code through quit.                 *)
(***************************************************************************)
C25_ReleasedOnEveryExit == pc = "exited" => ~lockHeld

\* what does hold: the lock is taken when the runtime is created, held
\* until the process ends, and released where jscmain returns, after a
\* load failure as well; exit() inside quit runs no destructor of jscmain
ReleasedOnReturn ==
    /\ (globalDataCreated /\ pc # "exited") => lockHeld
    /\ exitPath = "return" => ~lockHeld
    /\ exitPath = "quit" => lockHeld

\* a script that calls quit: the process has ended with the lock held
C25_QuitHoldsLock ==
    /\ argv = <<FileQ>>
    /\ pc = "exited"
    /\ exitPath = "quit"
    /\ exitStatus = <<EXIT_SUCCESS>>
    /\ lockHeld

\* a missing file: the fail-fast return releases the lock
C25_FailFastReleases ==
    /\ argv = <<FileM>>
    /\ LoadFailed
    /\ exitPath = "return"
    /\ ~lockHeld

====
